---------------------------- MODULE Spec2Model ----------------------------
(***************************************************************************)
(* Verification model of the ethoscope orchestration core:                 *)
(*   - Monitor.run / Monitor.stop      (src/src/ethoscope/core/monitor.py) *)
(*   - Monitor.__init__ (yoke wiring)  (src/src/ethoscope/core/monitor.py) *)
(*   - BaseInteractor (asynchronous)   (src/src/pysolovideo/tracking/      *)
(*   - SleepDepInteractor (synchronous)           interactors.py)          *)
(* Each part has its own specification (SpecRun, SpecBuild, SpecAsync,     *)
(* SpecSync); the variables of the other parts are left untouched.         *)
(* SpecRunLive is the run loop on an endless camera with a fair run        *)
(* thread; SpecCalls covers both interactor variants; SpecSound is the     *)
(* SystemPlaySoundOnStop detector with its tracker and its process.        *)
(***************************************************************************)
EXTENDS Integers, Sequences, FiniteSets, TLC

VARIABLES
    \* ---- Monitor.run / Monitor.stop ----
    pc,               \* position of the thread executing run()
    force_stop,       \* Monitor._force_stop
    is_running,       \* Monitor._is_running
    last_frame_idx,   \* Monitor._last_frame_idx
    last_time_stamp,  \* Monitor._last_time_stamp
    last_positions,   \* Monitor._last_positions : roi idx -> entry
    last_t,           \* Monitor._last_t
    i,                \* enumerate() index of the frame in hand
    t,                \* time stamp of the frame in hand
    j,                \* index of the unit being processed
    cam_pos,          \* frames the camera has yielded so far
    writer,           \* run(result_writer=...) is not None
    drawer,           \* run(drawer=...) is not None
    runs,             \* number of run() calls made so far
    log,              \* history: collaborator calls made for the frame in hand
    calls,            \* history: collaborator calls made during this run() call
    stoppedAt,        \* history: frames pulled by this run when stop() first took effect
    outcome,          \* history: how the current run() call left its loop
    \* ---- Monitor.__init__ ----
    b_pc,             \* "args": arguments chosen, constructor not yet run; "done"
    inp,              \* the arguments: rois, stimulators, yoke
    mon,              \* what the constructor left: outcome, _unit_trackers, bindings
    \* ---- BaseInteractor (asynchronous interactors) ----
    a_kind,           \* class of each interactor instance
    a_bound,          \* instance -> a tracker is bound (_tracker is not None)
    a_sub,            \* instance -> the process its _subprocess attribute names
    procs,            \* the processes started so far: owner and status
    a_ret,            \* what the latest __call__ returned or raised
    a_tick,           \* flips at every __call__
    \* ---- SleepDepInteractor (synchronous interactor) ----
    s_bound,          \* a tracker is bound (_tracker is not None)
    s_positions,      \* _tracker.positions
    s_times,          \* _tracker.times
    s_t0,             \* the detector's _t0 (SleepDepInteractor; SystemPlaySoundOnStop)
    s_fired,          \* history: calls of _interact / _interact_async made so far
    s_ret,            \* what the latest __call__ returned or raised
    s_tick            \* flips at every __call__

runVars == <<pc, force_stop, is_running, last_frame_idx, last_time_stamp,
             last_positions, last_t, i, t, j, cam_pos, writer, drawer, runs,
             log, calls, stoppedAt, outcome>>

buildVars == <<b_pc, inp, mon>>

asyncVars == <<a_kind, a_bound, a_sub, procs, a_ret, a_tick>>

syncVars == <<s_bound, s_positions, s_times, s_t0, s_fired, s_ret, s_tick>>

vars == <<runVars, buildVars, asyncVars, syncVars>>

-----------------------------------------------------------------------------
(* Bounds of the model *)
NumUnits == 2      \* TrackingUnits (ROIs) of the running Monitor
MaxFrames == 3     \* frames the camera can yield in total
MaxRuns == 2       \* run() calls on one Monitor
FramePeriod == 50  \* milliseconds between two frames of the camera
MaxCalls == 4      \* calls of units and collaborators counted in one run() call

None == "None"
NoStop == -1
Unset == -1
Units == 1..NumUnits

\* The camera's time stamp of its k-th frame (k counted from 0), monotonic.
FrameTime(k) == (k + 1) * FramePeriod

\* What TrackingUnit.get_last_positions(absolute=True) returns for unit u after
\* tracking the frame stamped ts: the positions of that frame.
AbsPos(u, ts) == [kind |-> "pos", unit |-> u, ts |-> ts]
\* The empty list stored for a unit that returned no record, and the missing
\* key of the initially empty dict.
EmptyList == [kind |-> "empty", unit |-> 0, ts |-> 0]
Absent == [kind |-> "absent", unit |-> 0, ts |-> 0]

Event(kind, frame, unit) == [kind |-> kind, frame |-> frame, unit |-> unit]

\* One more call made during this run() call; the count stops at MaxCalls.
Counted(n) == IF n < MaxCalls THEN n + 1 ELSE n

-----------------------------------------------------------------------------
(* Monitor.__init__, the fields the loop uses *)
RunInit ==
    /\ pc = "created"
    /\ force_stop = FALSE
    /\ is_running = FALSE
    /\ last_frame_idx = 0
    /\ last_time_stamp = 0
    /\ last_positions = [u \in Units |-> Absent]
    /\ last_t = Unset
    /\ i = -1
    /\ t = 0
    /\ j = 0
    /\ cam_pos = 0
    /\ writer = FALSE
    /\ drawer = FALSE
    /\ runs = 0
    /\ log = <<>>
    /\ calls = 0
    /\ stoppedAt = NoStop
    /\ outcome = None

\* Monitor.stop: callable from any thread at any time.
Stop ==
    /\ force_stop' = TRUE
    /\ stoppedAt' = IF stoppedAt = NoStop /\ is_running THEN i + 1 ELSE stoppedAt
    /\ UNCHANGED <<pc, is_running, last_frame_idx, last_time_stamp, last_positions,
                   last_t, i, t, j, cam_pos, writer, drawer, runs, log, calls, outcome>>

\* Faulty variant: run() starts by resetting the frame index.
RunCallResetsIdx ==
    /\ pc \in {"created", "returned", "raised"}
    /\ runs < MaxRuns
    /\ \E w \in BOOLEAN, d \in BOOLEAN : writer' = w /\ drawer' = d
    /\ runs' = runs + 1
    /\ is_running' = TRUE
    /\ pc' = "pull"
    /\ i' = -1
    /\ j' = 0
    /\ log' = <<>>
    /\ calls' = 0
    /\ outcome' = None
    /\ stoppedAt' = IF force_stop THEN 0 ELSE NoStop
    /\ last_frame_idx' = -1
    /\ UNCHANGED <<force_stop, last_time_stamp, last_positions, last_t, t, cam_pos>>

\* Faulty variant: run() starts by clearing the stop request.
RunCallClearsStop ==
    /\ pc \in {"created", "returned", "raised"}
    /\ runs < MaxRuns
    /\ \E w \in BOOLEAN, d \in BOOLEAN : writer' = w /\ drawer' = d
    /\ runs' = runs + 1
    /\ is_running' = TRUE
    /\ pc' = "pull"
    /\ i' = -1
    /\ j' = 0
    /\ log' = <<>>
    /\ calls' = 0
    /\ outcome' = None
    /\ stoppedAt' = IF force_stop THEN 0 ELSE NoStop
    /\ force_stop' = FALSE
    /\ UNCHANGED <<last_frame_idx, last_time_stamp, last_positions, last_t, t, cam_pos>>

\* The caller invokes run(result_writer, drawer): try-block entry, is_running = True.
RunCall ==
    /\ pc \in {"created", "returned", "raised"}
    /\ runs < MaxRuns
    /\ \E w \in BOOLEAN, d \in BOOLEAN : writer' = w /\ drawer' = d
    /\ runs' = runs + 1
    /\ is_running' = TRUE
    /\ pc' = "pull"
    /\ i' = -1
    /\ j' = 0
    /\ log' = <<>>
    /\ calls' = 0
    /\ outcome' = None
    /\ stoppedAt' = IF force_stop THEN 0 ELSE NoStop
    /\ UNCHANGED <<force_stop, last_frame_idx, last_time_stamp, last_positions,
                   last_t, t, cam_pos>>

\* for i,(t, frame) in enumerate(self._camera): the camera yields a frame.
PullFrame ==
    /\ pc = "pull"
    /\ cam_pos < MaxFrames
    /\ i' = i + 1
    /\ t' = FrameTime(cam_pos)
    /\ cam_pos' = cam_pos + 1
    /\ log' = <<>>
    /\ pc' = "check"
    /\ UNCHANGED <<force_stop, is_running, last_frame_idx, last_time_stamp,
                   last_positions, last_t, j, writer, drawer, runs, calls,
                   stoppedAt, outcome>>

\* The camera is exhausted: the for loop ends normally.
PullExhausted ==
    /\ pc = "pull"
    /\ pc' = "finally"
    /\ outcome' = "exhausted"
    /\ UNCHANGED <<force_stop, is_running, last_frame_idx, last_time_stamp,
                   last_positions, last_t, i, t, j, cam_pos, writer, drawer, runs,
                   log, calls, stoppedAt>>

\* The camera raises while the next frame is requested.
PullRaises ==
    /\ pc = "pull"
    /\ pc' = "except"
    /\ outcome' = "camera_failed"
    /\ UNCHANGED <<force_stop, is_running, last_frame_idx, last_time_stamp,
                   last_positions, last_t, i, t, j, cam_pos, writer, drawer, runs,
                   log, calls, stoppedAt>>

\* Faulty variant: the loop never looks at the flag.
StopIgnored == FALSE

\* Faulty variant: the flag is looked at for the first frame only.
StopCheckedOnce == force_stop /\ i = 0

\* if self._force_stop:
StopRequested == force_stop

\* ... break
StopObserved ==
    /\ pc = "check"
    /\ StopRequested
    /\ pc' = "finally"
    /\ outcome' = "stopped"
    /\ UNCHANGED <<force_stop, is_running, last_frame_idx, last_time_stamp,
                   last_positions, last_t, i, t, j, cam_pos, writer, drawer, runs,
                   log, calls, stoppedAt>>

\* The flag is not set: _last_frame_idx = i, _last_time_stamp = t, first unit next.
BeginFrame ==
    /\ pc = "check"
    /\ ~StopRequested
    /\ last_frame_idx' = i
    /\ last_time_stamp' = t
    /\ j' = 1
    /\ log' = Append(log, Event("begin", i, 0))
    /\ pc' = "track"
    /\ UNCHANGED <<force_stop, is_running, last_positions, last_t, i, t, cam_pos,
                   writer, drawer, runs, calls, stoppedAt, outcome>>

\* Where the loop goes once unit j is dealt with: the next unit, or the code
\* after the inner loop (flush if a writer is given, else draw, else _last_t).
AfterUnit ==
    IF j < NumUnits THEN "track"
    ELSE IF writer THEN "flush"
    ELSE IF drawer THEN "draw"
    ELSE "end"

\* Faulty variant: a unit that returned no record keeps its earlier entry.
TrackEmptyKeepsOld ==
    /\ pc = "track"
    /\ log' = Append(log, Event("track_empty", i, j))
    /\ calls' = Counted(calls)
    /\ pc' = AfterUnit
    /\ j' = IF j < NumUnits THEN j + 1 ELSE j
    /\ UNCHANGED <<force_stop, is_running, last_frame_idx, last_time_stamp, last_t,
                   last_positions, i, t, cam_pos, writer, drawer, runs, stoppedAt,
                   outcome>>

\* Faulty variant: a unit that returned no record is written as well.
TrackEmptyWrites ==
    /\ pc = "track"
    /\ last_positions' = [last_positions EXCEPT ![j] = EmptyList]
    /\ log' = Append(log, Event("track_empty", i, j))
    /\ calls' = Counted(calls)
    /\ pc' = IF writer THEN "write" ELSE AfterUnit
    /\ j' = IF ~writer /\ j < NumUnits THEN j + 1 ELSE j
    /\ UNCHANGED <<force_stop, is_running, last_frame_idx, last_time_stamp, last_t,
                   i, t, cam_pos, writer, drawer, runs, stoppedAt, outcome>>

\* data_rows = track_u.track(t, frame) returns no record:
\* _last_positions[roi.idx] = [] ; continue
TrackEmpty ==
    /\ pc = "track"
    /\ last_positions' = [last_positions EXCEPT ![j] = EmptyList]
    /\ log' = Append(log, Event("track_empty", i, j))
    /\ calls' = Counted(calls)
    /\ pc' = AfterUnit
    /\ j' = IF j < NumUnits THEN j + 1 ELSE j
    /\ UNCHANGED <<force_stop, is_running, last_frame_idx, last_time_stamp, last_t,
                   i, t, cam_pos, writer, drawer, runs, stoppedAt, outcome>>

\* Faulty variant: a unit's records are never handed to the result writer.
SkipWrite == AfterUnit

\* Where the loop goes after a unit returned records.
AfterRows == IF writer THEN "write" ELSE AfterUnit

\* track returns records: _last_positions[roi.idx] = abs_pos, then write if a
\* result writer is given.
TrackRows ==
    /\ pc = "track"
    /\ last_positions' = [last_positions EXCEPT ![j] = AbsPos(j, t)]
    /\ log' = Append(log, Event("track_rows", i, j))
    /\ calls' = Counted(calls)
    /\ pc' = AfterRows
    /\ j' = IF ~writer /\ j < NumUnits THEN j + 1 ELSE j
    /\ UNCHANGED <<force_stop, is_running, last_frame_idx, last_time_stamp, last_t,
                   i, t, cam_pos, writer, drawer, runs, stoppedAt, outcome>>

\* Faulty variant: a failing track call is retried on the same unit.
RetryTrack == "track"

\* Where the loop goes when a unit's track call raises: nothing in the loop
\* body catches it, so control reaches the except clause of run.
OnTrackFailure == "except"

\* track raises.
TrackRaises ==
    /\ pc = "track"
    /\ log' = Append(log, Event("track_raise", i, j))
    /\ calls' = Counted(calls)
    /\ pc' = OnTrackFailure
    /\ outcome' = "track_failed"
    /\ UNCHANGED <<force_stop, is_running, last_frame_idx, last_time_stamp,
                   last_positions, last_t, i, t, j, cam_pos, writer, drawer, runs,
                   stoppedAt>>

\* result_writer.write(t, track_u.roi, data_rows) returns.
WriteOk ==
    /\ pc = "write"
    /\ log' = Append(log, Event("write", i, j))
    /\ calls' = Counted(calls)
    /\ pc' = AfterUnit
    /\ j' = IF j < NumUnits THEN j + 1 ELSE j
    /\ UNCHANGED <<force_stop, is_running, last_frame_idx, last_time_stamp,
                   last_positions, last_t, i, t, cam_pos, writer, drawer, runs,
                   stoppedAt, outcome>>

\* result_writer.write raises.
WriteRaises ==
    /\ pc = "write"
    /\ log' = Append(log, Event("write_raise", i, j))
    /\ calls' = Counted(calls)
    /\ pc' = "except"
    /\ outcome' = "writer_failed"
    /\ UNCHANGED <<force_stop, is_running, last_frame_idx, last_time_stamp,
                   last_positions, last_t, i, t, j, cam_pos, writer, drawer, runs,
                   stoppedAt>>

\* result_writer.flush(t, frame) returns.
FlushOk ==
    /\ pc = "flush"
    /\ log' = Append(log, Event("flush", i, 0))
    /\ calls' = Counted(calls)
    /\ pc' = IF drawer THEN "draw" ELSE "end"
    /\ UNCHANGED <<force_stop, is_running, last_frame_idx, last_time_stamp,
                   last_positions, last_t, i, t, j, cam_pos, writer, drawer, runs,
                   stoppedAt, outcome>>

\* result_writer.flush raises.
FlushRaises ==
    /\ pc = "flush"
    /\ log' = Append(log, Event("flush_raise", i, 0))
    /\ calls' = Counted(calls)
    /\ pc' = "except"
    /\ outcome' = "writer_failed"
    /\ UNCHANGED <<force_stop, is_running, last_frame_idx, last_time_stamp,
                   last_positions, last_t, i, t, j, cam_pos, writer, drawer, runs,
                   stoppedAt>>

\* drawer.draw(frame, self._last_positions, self._unit_trackers) returns.
DrawOk ==
    /\ pc = "draw"
    /\ log' = Append(log, Event("draw", i, 0))
    /\ calls' = Counted(calls)
    /\ pc' = "end"
    /\ UNCHANGED <<force_stop, is_running, last_frame_idx, last_time_stamp,
                   last_positions, last_t, i, t, j, cam_pos, writer, drawer, runs,
                   stoppedAt, outcome>>

\* drawer.draw raises.
DrawRaises ==
    /\ pc = "draw"
    /\ log' = Append(log, Event("draw_raise", i, 0))
    /\ calls' = Counted(calls)
    /\ pc' = "except"
    /\ outcome' = "drawer_failed"
    /\ UNCHANGED <<force_stop, is_running, last_frame_idx, last_time_stamp,
                   last_positions, last_t, i, t, j, cam_pos, writer, drawer, runs,
                   stoppedAt>>

\* self._last_t = t : the frame is complete, back to the camera.
EndFrame ==
    /\ pc = "end"
    /\ last_t' = t
    /\ log' = Append(log, Event("end", i, 0))
    /\ pc' = "pull"
    /\ UNCHANGED <<force_stop, is_running, last_frame_idx, last_time_stamp,
                   last_positions, i, t, j, cam_pos, writer, drawer, runs, calls,
                   stoppedAt, outcome>>

\* except Exception as e: logging.error(...); raise e
Except ==
    /\ pc = "except"
    /\ pc' = "finally"
    /\ UNCHANGED <<force_stop, is_running, last_frame_idx, last_time_stamp,
                   last_positions, last_t, i, t, j, cam_pos, writer, drawer, runs,
                   log, calls, stoppedAt, outcome>>

\* Faulty variant: the flag is cleared after the loop only, not in a finally clause.
CleanupOnReturnOnly(how) == how \in {"exhausted", "stopped"}

\* Whether the finally clause is run on the way out of the try statement.
\* (Python runs it on every exit.)
CleanupRuns(how) == how \in {"exhausted", "stopped", "camera_failed",
                             "track_failed", "writer_failed", "drawer_failed"}

\* finally: self._is_running = False ; then run returns or the exception
\* reaches the caller.
Finally ==
    /\ pc = "finally"
    /\ is_running' = IF CleanupRuns(outcome) THEN FALSE ELSE is_running
    /\ pc' = IF outcome \in {"exhausted", "stopped"} THEN "returned" ELSE "raised"
    /\ UNCHANGED <<force_stop, last_frame_idx, last_time_stamp, last_positions,
                   last_t, i, t, j, cam_pos, writer, drawer, runs, log, calls,
                   stoppedAt, outcome>>

RunNext ==
    \/ Stop /\ UNCHANGED <<buildVars, asyncVars, syncVars>>
    \/ RunCall /\ UNCHANGED <<buildVars, asyncVars, syncVars>>
    \/ PullFrame /\ UNCHANGED <<buildVars, asyncVars, syncVars>>
    \/ PullExhausted /\ UNCHANGED <<buildVars, asyncVars, syncVars>>
    \/ PullRaises /\ UNCHANGED <<buildVars, asyncVars, syncVars>>
    \/ StopObserved /\ UNCHANGED <<buildVars, asyncVars, syncVars>>
    \/ BeginFrame /\ UNCHANGED <<buildVars, asyncVars, syncVars>>
    \/ TrackEmpty /\ UNCHANGED <<buildVars, asyncVars, syncVars>>
    \/ TrackRows /\ UNCHANGED <<buildVars, asyncVars, syncVars>>
    \/ TrackRaises /\ UNCHANGED <<buildVars, asyncVars, syncVars>>
    \/ WriteOk /\ UNCHANGED <<buildVars, asyncVars, syncVars>>
    \/ WriteRaises /\ UNCHANGED <<buildVars, asyncVars, syncVars>>
    \/ FlushOk /\ UNCHANGED <<buildVars, asyncVars, syncVars>>
    \/ FlushRaises /\ UNCHANGED <<buildVars, asyncVars, syncVars>>
    \/ DrawOk /\ UNCHANGED <<buildVars, asyncVars, syncVars>>
    \/ DrawRaises /\ UNCHANGED <<buildVars, asyncVars, syncVars>>
    \/ EndFrame /\ UNCHANGED <<buildVars, asyncVars, syncVars>>
    \/ Except /\ UNCHANGED <<buildVars, asyncVars, syncVars>>
    \/ Finally /\ UNCHANGED <<buildVars, asyncVars, syncVars>>


-----------------------------------------------------------------------------
(* Monitor.__init__ : building the list of TrackingUnits *)

MaxRois == 3       \* most ROIs handed to the constructor
MaxEntries == 2    \* most entries of the yoke mapping
IdSlack == 1       \* how far outside 1..MaxRois a yoke id may lie

\* Ids a yoke entry may name: some valid, some below 1, some above n.
YokeIds == (0 - IdSlack)..(MaxRois + IdSlack)

\* The dict json.loads(yoke) returns, as the sequence of its (yoked, focal)
\* items in the order the dict iterates them; its keys are distinct.
YokeEntry == [y : YokeIds, f : YokeIds]
YokeDicts ==
    {e \in UNION {[1..m -> YokeEntry] : m \in 1..MaxEntries} :
        \A a, b \in DOMAIN e : a # b => e[a].y # e[b].y}

\* A TrackingUnit: its own tracker instance, the index of the ROI it tracks
\* and the index of the stimulator it carries (0: none). Null is the None
\* entry of the list under construction.
NoStim == 0
Null == [tracker |-> 0, roi |-> 0, stim |-> 0]

\* What a list index means in Python: 0..n-1 from the front, -n..-1 from the
\* back, anything else raises IndexError. Positions are 1..n here.
IndexOk(k, n) == (0 - n) <= k /\ k < n
IndexPos(k, n) == IF k >= 0 THEN k + 1 ELSE n + k + 1

\* State of the constructor while it runs: the list, the tracker each
\* stimulator is bound to (0: unbound), the trackers created so far, the error.
Fresh(n, nstims) ==
    [err |-> "ok",
     units |-> [p \in 1..n |-> Null],
     bound |-> [k \in 1..nstims |-> 0],
     ntrackers |-> 0]

\* TrackingUnit(tracker_class, roi, stimulator, tracker=observed): the unit
\* creates its own tracker; its stimulator, if any, is bound to `observed`
\* when given (0: not given) and to the unit's own tracker otherwise.
TrackingUnit(st, p, roi, stim, observed) ==
    LET own == st.ntrackers + 1 IN
    [st EXCEPT !.units[p] = [tracker |-> own, roi |-> roi, stim |-> stim],
               !.ntrackers = own,
               !.bound = IF stim = NoStim THEN @
                         ELSE [@ EXCEPT ![stim] = IF observed = 0 THEN own ELSE observed]]

\* Body of "for f in yoke.values()": build the focal unit unless already built.
FocalStep(st, e) ==
    LET n == Len(st.units)
        p == IndexPos(e.f - 1, n) IN
    IF ~IndexOk(e.f - 1, n) THEN [st EXCEPT !.err = "IndexError"]
    ELSE IF st.units[p] = Null THEN TrackingUnit(st, p, p, p, 0)
    ELSE st

\* Faulty variant: the yoked unit is given the focal ROI and stimulator.
YokedStepFocalRoi(st, e) ==
    LET n == Len(st.units)
        p == IndexPos(e.y - 1, n)
        q == IndexPos(e.f - 1, n) IN
    IF ~IndexOk(e.y - 1, n) THEN [st EXCEPT !.err = "IndexError"]
    ELSE TrackingUnit(st, p, q, q, st.units[q].tracker)

\* Body of "for y, f in yoke.items()": (re)build the yoked unit with its own
\* ROI and stimulator, the stimulator observing the focal unit's tracker.
YokedStep(st, e) ==
    LET n == Len(st.units)
        p == IndexPos(e.y - 1, n)
        q == IndexPos(e.f - 1, n) IN
    IF ~IndexOk(e.y - 1, n) THEN [st EXCEPT !.err = "IndexError"]
    ELSE TrackingUnit(st, p, p, p, st.units[q].tracker)

RECURSIVE FocalPass(_, _, _)
FocalPass(st, entries, k) ==
    IF k > Len(entries) \/ st.err # "ok" THEN st
    ELSE FocalPass(FocalStep(st, entries[k]), entries, k + 1)

RECURSIVE YokedPass(_, _, _)
YokedPass(st, entries, k) ==
    IF k > Len(entries) \/ st.err # "ok" THEN st
    ELSE YokedPass(YokedStep(st, entries[k]), entries, k + 1)

\* "for i, ut in enumerate(self._unit_trackers): if ut is None: ..."
RECURSIVE DefaultPass(_, _)
DefaultPass(st, p) ==
    IF p > Len(st.units) \/ st.err # "ok" THEN st
    ELSE DefaultPass(IF st.units[p] = Null THEN TrackingUnit(st, p, p, p, 0) ELSE st,
                     p + 1)

\* assert all([not ut._tracker is None for ut in self._unit_trackers])
AssertTrackers(st) ==
    IF st.err = "ok" /\ \E p \in DOMAIN st.units : st.units[p].tracker = 0
    THEN [st EXCEPT !.err = "AssertionError"]
    ELSE st

\* [TrackingUnit(tracker_class, r, inter) for r, inter in zip(rois, stimulators)]
\* and, with with_stim false, [TrackingUnit(tracker_class, r, None) for r in rois]
RECURSIVE PlainPass(_, _, _)
PlainPass(st, p, with_stim) ==
    IF p > Len(st.units) THEN st
    ELSE PlainPass(TrackingUnit(st, p, p, IF with_stim THEN p ELSE NoStim, 0),
                   p + 1, with_stim)

\* Faulty variant: a stimulator list at least as long as the ROI list is accepted.
LengthsCompatible(nstims, nrois) == nstims >= nrois

\* elif len(stimulators) == len(rois):
LengthsMatch(nstims, nrois) == nstims = nrois

Failed(name) == [err |-> name, units |-> <<>>, bound |-> <<>>, ntrackers |-> 0]

\* Monitor.__init__(camera, tracker_class, rois, stimulators, yoke)
Construct(a) ==
    IF ~a.rois.given THEN Failed("NotImplementedError")
    ELSE IF ~a.stims.given THEN PlainPass(Fresh(a.rois.n, 0), 1, FALSE)
    ELSE IF LengthsMatch(a.stims.n, a.rois.n) THEN
        IF ~a.yoke.given THEN PlainPass(Fresh(a.rois.n, a.stims.n), 1, TRUE)
        ELSE AssertTrackers(
                 DefaultPass(
                     YokedPass(
                         FocalPass(Fresh(a.rois.n, a.stims.n), a.yoke.entries, 1),
                         a.yoke.entries, 1),
                     1))
    ELSE Failed("ValueError")

NoList == [given |-> FALSE, n |-> 0]
NoYoke == [given |-> FALSE, entries |-> <<>>]
NoMonitor == Failed("none")

\* The arguments a caller may pass: rois None or a list of 1..MaxRois ROIs,
\* stimulators None or a list of 0..MaxRois+1, yoke None/"" or a JSON object.
Inputs ==
    [rois  : {NoList} \cup {[given |-> TRUE, n |-> n] : n \in 1..MaxRois},
     stims : {NoList} \cup {[given |-> TRUE, n |-> n] : n \in 0..(MaxRois + 1)},
     yoke  : {NoYoke} \cup {[given |-> TRUE, entries |-> e] : e \in YokeDicts}]

BuildParked ==
    /\ b_pc = "parked"
    /\ inp = [rois |-> NoList, stims |-> NoList, yoke |-> NoYoke]
    /\ mon = NoMonitor

BuildInit ==
    /\ b_pc = "args"
    /\ inp \in Inputs
    /\ mon = NoMonitor

\* The caller evaluates Monitor(...): the constructor runs to its end or raises.
NewMonitor ==
    /\ b_pc = "args"
    /\ mon' = Construct(inp)
    /\ b_pc' = "done"
    /\ UNCHANGED inp

BuildNext == NewMonitor /\ UNCHANGED <<runVars, asyncVars, syncVars>>

-----------------------------------------------------------------------------
(* BaseInteractor: the asynchronous interactors *)

NumInstances == 2  \* interactor instances alive together
MaxProcs == 3      \* background processes started in one behaviour

Instances == 1..NumInstances
Kinds == {"SystemPlaySoundOnStop", "DefaultInteractor"}

\* The class attribute _subprocess = multiprocessing.Process(): one process
\* object, never started, that every instance sees until its first dispatch.
ClassDefault == 0

\* _target: None in BaseInteractor and DefaultInteractor, beep in
\* SystemPlaySoundOnStop.
Target(kind) == IF kind = "SystemPlaySoundOnStop" THEN "beep" ELSE None

\* The decisions _run can return: DefaultInteractor always returns False; the
\* detector of SystemPlaySoundOnStop returns either, depending on the tracker.
RunDecisions(kind) == IF kind = "DefaultInteractor" THEN {FALSE} ELSE BOOLEAN

\* Faulty variant: the busy test is missing.
NeverAlive(ref) == FALSE

\* Faulty variant: the busy test asks whether the process was ever started.
WasStarted(ref) == ref # ClassDefault

\* Faulty variant: a process that exited abnormally still counts as busy.
AliveOrCrashed(ref) == ref # ClassDefault /\ procs[ref].status \in {"alive", "crashed"}

\* self._subprocess.is_alive(): started and not yet exited.
IsAlive(ref) == ref # ClassDefault /\ procs[ref].status = "alive"

Returned(k, interact) == [inst |-> k, interact |-> interact, raised |-> "no"]
Raised(k, what) == [inst |-> k, interact |-> FALSE, raised |-> what]

AsyncInit ==
    /\ a_kind \in [Instances -> Kinds]
    /\ a_bound = [k \in Instances |-> FALSE]
    /\ a_sub = [k \in Instances |-> ClassDefault]
    /\ procs = <<>>
    /\ a_ret = Returned(0, FALSE)
    /\ a_tick = 0

AsyncParked ==
    /\ a_kind = <<>>
    /\ a_bound = <<>>
    /\ a_sub = <<>>
    /\ procs = <<>>
    /\ a_ret = Returned(0, FALSE)
    /\ a_tick = 0

\* BaseInteractor.bind_tracker
BindTracker(k) ==
    /\ a_bound' = [a_bound EXCEPT ![k] = TRUE]
    /\ UNCHANGED <<a_kind, a_sub, procs, a_ret, a_tick>>

\* Faulty variant: the new process is stored in the class attribute, which
\* every instance reads.
CallSharedSlot(k) ==
    /\ a_tick' = 1 - a_tick
    /\ IF ~a_bound[k]
       THEN /\ a_ret' = Raised(k, "ValueError")
            /\ UNCHANGED <<a_sub, procs>>
       ELSE \E interact \in RunDecisions(a_kind[k]) :
                IF ~interact
                THEN /\ a_ret' = Returned(k, FALSE)
                     /\ UNCHANGED <<a_sub, procs>>
                ELSE IF IsAlive(a_sub[k])
                THEN /\ a_ret' = Returned(k, TRUE)
                     /\ UNCHANGED <<a_sub, procs>>
                ELSE IF Target(a_kind[k]) = None
                THEN /\ a_ret' = Raised(k, "NotImplementedError")
                     /\ UNCHANGED <<a_sub, procs>>
                ELSE /\ Len(procs) < MaxProcs
                     /\ procs' = Append(procs, [owner |-> k, status |-> "alive"])
                     /\ a_sub' = [m \in Instances |-> Len(procs) + 1]
                     /\ a_ret' = Returned(k, TRUE)
    /\ UNCHANGED <<a_kind, a_bound>>

\* BaseInteractor.__call__ with _interact_async: fail without a tracker,
\* evaluate _run, and on a decision to act return at once if the previous
\* process is alive, else create and start a new process.
Call(k) ==
    /\ a_tick' = 1 - a_tick
    /\ IF ~a_bound[k]
       THEN /\ a_ret' = Raised(k, "ValueError")
            /\ UNCHANGED <<a_sub, procs>>
       ELSE \E interact \in RunDecisions(a_kind[k]) :
                IF ~interact
                THEN /\ a_ret' = Returned(k, FALSE)
                     /\ UNCHANGED <<a_sub, procs>>
                ELSE IF IsAlive(a_sub[k])
                THEN /\ a_ret' = Returned(k, TRUE)
                     /\ UNCHANGED <<a_sub, procs>>
                ELSE IF Target(a_kind[k]) = None
                THEN /\ a_ret' = Raised(k, "NotImplementedError")
                     /\ UNCHANGED <<a_sub, procs>>
                ELSE /\ Len(procs) < MaxProcs
                     /\ procs' = Append(procs, [owner |-> k, status |-> "alive"])
                     /\ a_sub' = [a_sub EXCEPT ![k] = Len(procs) + 1]
                     /\ a_ret' = Returned(k, TRUE)
    /\ UNCHANGED <<a_kind, a_bound>>

\* The target function returns: the background process exits normally.
Complete(p) ==
    /\ procs[p].status = "alive"
    /\ procs' = [procs EXCEPT ![p].status = "done"]
    /\ UNCHANGED <<a_kind, a_bound, a_sub, a_ret, a_tick>>

\* The target function fails or the process is killed: it exits abnormally.
Crash(p) ==
    /\ procs[p].status = "alive"
    /\ procs' = [procs EXCEPT ![p].status = "crashed"]
    /\ UNCHANGED <<a_kind, a_bound, a_sub, a_ret, a_tick>>

AsyncNext ==
    \/ \E k \in Instances : BindTracker(k) /\ UNCHANGED <<runVars, buildVars, syncVars>>
    \/ \E k \in Instances : Call(k) /\ UNCHANGED <<runVars, buildVars, syncVars>>
    \/ \E p \in DOMAIN procs : Complete(p) /\ UNCHANGED <<runVars, buildVars, syncVars>>
    \/ \E p \in DOMAIN procs : Crash(p) /\ UNCHANGED <<runVars, buildVars, syncVars>>

-----------------------------------------------------------------------------
(* SleepDepInteractor: the synchronous inactivity detector *)

MaxSamples == 5    \* positions the tracker records in one behaviour
StepShort == 30    \* seconds between two samples: a short gap
StepLong == 60     \* seconds between two samples: a long gap

\* self._distance_threshold = 1e-2, in units of 1e-3 (as the coordinates).
DistanceThreshold == 10
\* self._inactivity_time_threshold = 90 (seconds)
InactivityTimeThreshold == 90
\* self._t0 = None
NoTimer == -1

\* Positions the tracker may report (x, y in units of 1e-3). From the first:
\* 8 away (below the threshold), 10 away (at it), 20 away (above it).
Points == {<<0, 0>>, <<0, 8>>, <<6, 8>>, <<0, 20>>}
TimeSteps == {StepShort, StepLong}

\* np.abs(xy_m - xy_mm) < self._distance_threshold, compared on the squares
\* (both sides are non-negative).
Closer(a, b) ==
    (a[1] - b[1]) * (a[1] - b[1]) + (a[2] - b[2]) * (a[2] - b[2])
        < DistanceThreshold * DistanceThreshold

\* Faulty variant: the timer survives a trigger.
TimerKept == s_t0

\* self._t0 = None, on the trigger
TimerAfterTrigger == NoTimer

\* SleepDepInteractor._run : <<interact, new value of _t0>>
SleepDepRun ==
    LET n == Len(s_positions) IN
    IF n < 2 THEN <<FALSE, s_t0>>
    ELSE IF Closer(s_positions[n], s_positions[n - 1]) THEN
        LET now == s_times[n] IN
        IF s_t0 = NoTimer THEN <<FALSE, now>>
        ELSE IF now - s_t0 > InactivityTimeThreshold THEN <<TRUE, TimerAfterTrigger>>
        ELSE <<FALSE, s_t0>>
    ELSE <<FALSE, NoTimer>>

SyncReturned(interact) == [interact |-> interact, raised |-> "no"]
SyncRaised(what) == [interact |-> FALSE, raised |-> what]

SyncInit ==
    /\ s_bound = FALSE
    /\ s_positions = <<>>
    /\ s_times = <<>>
    /\ s_t0 = NoTimer
    /\ s_fired = 0
    /\ s_ret = SyncReturned(FALSE)
    /\ s_tick = 0

SyncParked == SyncInit

\* BaseInteractorSync.bind_tracker
SyncBindTracker ==
    /\ s_bound' = TRUE
    /\ UNCHANGED <<s_positions, s_times, s_t0, s_fired, s_ret, s_tick>>

\* The bound tracker records one more position, some time after the last.
TrackerAppend ==
    /\ Len(s_positions) < MaxSamples
    /\ \E pt \in Points, dt \in TimeSteps :
          /\ s_positions' = Append(s_positions, pt)
          /\ s_times' = Append(s_times,
                               IF s_times = <<>> THEN dt ELSE s_times[Len(s_times)] + dt)
    /\ UNCHANGED <<s_bound, s_t0, s_fired, s_ret, s_tick>>

\* Faulty variant: __call__ evaluates _run without looking at _tracker.
SyncCallNoGuard ==
    /\ s_tick' = 1 - s_tick
    /\ s_t0' = SleepDepRun[2]
    /\ s_fired' = IF SleepDepRun[1] THEN s_fired + 1 ELSE s_fired
    /\ s_ret' = SyncReturned(SleepDepRun[1])
    /\ UNCHANGED <<s_bound, s_positions, s_times>>

\* BaseInteractorSync.__call__ on a SleepDepInteractor
SyncCall ==
    /\ s_tick' = 1 - s_tick
    /\ IF ~s_bound
       THEN /\ s_ret' = SyncRaised("ValueError")
            /\ UNCHANGED <<s_t0, s_fired>>
       ELSE /\ s_t0' = SleepDepRun[2]
            /\ s_fired' = IF SleepDepRun[1] THEN s_fired + 1 ELSE s_fired
            /\ s_ret' = SyncReturned(SleepDepRun[1])
    /\ UNCHANGED <<s_bound, s_positions, s_times>>

SyncNext ==
    \/ SyncBindTracker /\ UNCHANGED <<runVars, buildVars, asyncVars>>
    \/ TrackerAppend /\ UNCHANGED <<runVars, buildVars, asyncVars>>
    \/ SyncCall /\ UNCHANGED <<runVars, buildVars, asyncVars>>

-----------------------------------------------------------------------------
(* SystemPlaySoundOnStop: the asynchronous detector with a rest time.      *)
(* It is instance TheSound of the asynchronous part; its tracker is        *)
(* s_positions / s_times, its _t0 is s_t0, and s_fired counts its calls of *)
(* _interact_async.                                                        *)

MaxSoundSamples == 4  \* positions the detector's tracker records in one behaviour

TheSound == 1

\* self._distance_threshold = 0.2, in units of 0.1 (as the coordinates).
SoundDistanceThreshold == 2
\* self._inactivity_time_threshold = 30 (seconds)
SoundInactivityThreshold == 30
\* self._rest_time = 60 (seconds)
RestTime == 60

\* Positions the tracker may report (x, y in units of 0.1), on one line so
\* that every distance is a whole number: 1, 2 or 3 apart.
SoundPoints == {<<0, 0>>, <<0, 1>>, <<0, 3>>}

\* sqrt, exact on the squares the positions above produce.
Sqrt(n) == CHOOSE r \in 0..n : r * r = n

\* sqrt((px_lag - p["x"]) ** 2 + (py_lag - p["y"]) ** 2)
Dist(a, b) == Sqrt((a[1] - b[1]) * (a[1] - b[1]) + (a[2] - b[2]) * (a[2] - b[2]))

\* SystemPlaySoundOnStop._cumulative_dist: walk the samples from the last
\* to the first, adding the distance between neighbours; stop after adding
\* the first sample older than the inactivity threshold. k is the sample
\* being visited, its later neighbour (px_lag, py_lag) is sample k + 1.
RECURSIVE CumulativeDist(_, _)
CumulativeDist(k, acc) ==
    IF k < 1 THEN acc
    ELSE LET sum == acc + Dist(s_positions[k + 1], s_positions[k])
             now == s_times[Len(s_times)] IN
         IF now - s_times[k] > SoundInactivityThreshold THEN sum
         ELSE CumulativeDist(k - 1, sum)

\* Faulty variant: the rest time is compared with the inactivity threshold.
RestedAfterInactivity(now, t0) == ~(now - t0 < SoundInactivityThreshold)

\* not (now - self._t0 < self._rest_time)
Rested(now, t0) == ~(now - t0 < RestTime)

\* SystemPlaySoundOnStop._run on a tracker with at least one sample:
\* <<interact, new value of _t0>>
SoundRun ==
    LET n == Len(s_times)
        now == s_times[n] IN
    IF n < 2 \/ now - s_times[1] < SoundInactivityThreshold THEN <<FALSE, s_t0>>
    ELSE IF CumulativeDist(n - 1, 0) > SoundDistanceThreshold THEN <<FALSE, s_t0>>
    ELSE IF s_t0 = NoTimer THEN <<TRUE, now>>
    ELSE IF ~Rested(now, s_t0) THEN <<FALSE, s_t0>>
    ELSE <<TRUE, now>>

SoundInit ==
    /\ a_kind = [k \in Instances |-> "SystemPlaySoundOnStop"]
    /\ a_bound = [k \in Instances |-> FALSE]
    /\ a_sub = [k \in Instances |-> ClassDefault]
    /\ procs = <<>>
    /\ a_ret = Returned(0, FALSE)
    /\ a_tick = 0
    /\ SyncInit

\* The bound tracker records one more position, some time after the last.
SoundTrackerAppend ==
    /\ Len(s_positions) < MaxSoundSamples
    /\ \E pt \in SoundPoints, dt \in TimeSteps :
          /\ s_positions' = Append(s_positions, pt)
          /\ s_times' = Append(s_times,
                               IF s_times = <<>> THEN dt ELSE s_times[Len(s_times)] + dt)
    /\ UNCHANGED <<s_bound, s_t0, s_fired, s_ret, s_tick>>

\* BaseInteractor.__call__ on the SystemPlaySoundOnStop instance: fail
\* without a tracker; _run reads times[-1] first (IndexError on a tracker
\* without samples) and records the trigger time when it decides to act;
\* then _interact_async drops the request if the previous process is alive,
\* else creates and starts a new process.
SoundCall ==
    /\ a_tick' = 1 - a_tick
    /\ IF ~a_bound[TheSound]
       THEN /\ a_ret' = Raised(TheSound, "ValueError")
            /\ UNCHANGED <<a_sub, procs, s_t0, s_fired>>
       ELSE IF s_times = <<>>
       THEN /\ a_ret' = Raised(TheSound, "IndexError")
            /\ UNCHANGED <<a_sub, procs, s_t0, s_fired>>
       ELSE /\ s_t0' = SoundRun[2]
            /\ IF ~SoundRun[1]
               THEN /\ a_ret' = Returned(TheSound, FALSE)
                    /\ UNCHANGED <<a_sub, procs, s_fired>>
               ELSE /\ s_fired' = s_fired + 1
                    /\ a_ret' = Returned(TheSound, TRUE)
                    /\ IF IsAlive(a_sub[TheSound])
                       THEN UNCHANGED <<a_sub, procs>>
                       ELSE /\ Len(procs) < MaxProcs
                            /\ procs' = Append(procs, [owner |-> TheSound,
                                                       status |-> "alive"])
                            /\ a_sub' = [a_sub EXCEPT ![TheSound] = Len(procs) + 1]
    /\ UNCHANGED <<a_kind, a_bound, s_bound, s_positions, s_times, s_ret, s_tick>>

SoundNext ==
    \/ BindTracker(TheSound) /\ UNCHANGED <<runVars, buildVars, syncVars>>
    \/ SoundTrackerAppend /\ UNCHANGED <<runVars, buildVars, asyncVars>>
    \/ SoundCall /\ UNCHANGED <<runVars, buildVars>>
    \/ \E p \in DOMAIN procs : Complete(p) /\ UNCHANGED <<runVars, buildVars, syncVars>>
    \/ \E p \in DOMAIN procs : Crash(p) /\ UNCHANGED <<runVars, buildVars, syncVars>>

-----------------------------------------------------------------------------
(* Specifications: one per part, the other parts parked *)

InitRun == RunInit /\ BuildParked /\ AsyncParked /\ SyncParked

SpecRun == InitRun /\ [][RunNext]_vars

InitBuild == BuildInit /\ RunInit /\ AsyncParked /\ SyncParked

SpecBuild == InitBuild /\ [][BuildNext]_vars

InitAsync == AsyncInit /\ RunInit /\ BuildParked /\ SyncParked

SpecAsync == InitAsync /\ [][AsyncNext]_vars

InitSync == SyncInit /\ RunInit /\ BuildParked /\ AsyncParked

SpecSync == InitSync /\ [][SyncNext]_vars

\* Both kinds of interactor, one kind per behaviour: the asynchronous
\* instances, or the synchronous detector.
InitCalls ==
    /\ RunInit
    /\ BuildParked
    /\ \/ AsyncInit /\ SyncParked
       \/ AsyncParked /\ SyncInit

CallsNext ==
    \/ a_kind # <<>> /\ AsyncNext
    \/ a_kind = <<>> /\ SyncNext

SpecCalls == InitCalls /\ [][CallsNext]_vars

\* A camera that never runs out: past MaxFrames it keeps yielding frames,
\* which the model no longer tells apart (index and time stamp stay at
\* their last values).
PullMore ==
    /\ pc = "pull"
    /\ cam_pos = MaxFrames
    /\ log' = <<>>
    /\ pc' = "check"
    /\ UNCHANGED <<force_stop, is_running, last_frame_idx, last_time_stamp,
                   last_positions, last_t, i, t, j, cam_pos, writer, drawer, runs,
                   calls, stoppedAt, outcome>>

\* The steps of the thread that executes run(): every pull and every call
\* of a unit or a collaborator returns or raises.
RunThread ==
    /\ \/ PullFrame \/ PullMore \/ PullExhausted \/ PullRaises
       \/ StopObserved \/ BeginFrame
       \/ TrackEmpty \/ TrackRows \/ TrackRaises
       \/ WriteOk \/ WriteRaises \/ FlushOk \/ FlushRaises
       \/ DrawOk \/ DrawRaises \/ EndFrame \/ Except \/ Finally
    /\ UNCHANGED <<buildVars, asyncVars, syncVars>>

LiveNext ==
    \/ RunNext
    \/ PullMore /\ UNCHANGED <<buildVars, asyncVars, syncVars>>

\* run() on an endless camera, the run thread always making progress.
SpecRunLive == InitRun /\ [][LiveNext]_vars /\ WF_vars(RunThread)

InitSound == SoundInit /\ RunInit /\ BuildParked

SpecSound == InitSound /\ [][SoundNext]_vars

-----------------------------------------------------------------------------
(* Properties of Monitor.run / Monitor.stop (checked under SpecRun) *)

LoopPcs == {"pull", "check", "track", "write", "flush", "draw", "end"}

\* C3: once stop() has taken effect, a frame pulled afterwards is never
\* processed: no begin/track/write/flush/draw event exists for it, none of
\* last_time_stamp, last_positions, _last_t carries its time stamp, at most one
\* such frame is pulled, and run leaves by the break; if stop() preceded the
\* first frame, the run makes no collaborator call at all.
C3_NoFrameStartedAfterStop ==
    (stoppedAt # NoStop /\ pc # "created") =>
        /\ i <= stoppedAt
        /\ (stoppedAt = 0 => calls = 0)
        /\ (i = stoppedAt =>
               /\ log = <<>>
               /\ pc \in {"check", "finally", "returned"}
               /\ (pc # "check" => outcome = "stopped")
               /\ last_time_stamp # t
               /\ last_t # t
               /\ \A u \in Units : last_positions[u].ts # t)

\* Witness of C3: stop() arrived while a frame was being processed; the
\* next frame was pulled, left untouched, and run returned.
C3_Witness ==
    /\ stoppedAt >= 1
    /\ i = stoppedAt
    /\ pc = "returned"
    /\ outcome = "stopped"
    /\ calls > 0

\* C4: is_running is false before run is called, true at every point of
\* the loop, and false once run has returned or raised, whatever the exit.
C4_RunningFlagLifecycle ==
    /\ (pc = "created" => ~is_running)
    /\ (pc \in LoopPcs => is_running)
    /\ (pc \in {"returned", "raised"} => ~is_running)
    /\ (pc = "returned" => outcome \in {"exhausted", "stopped"})
    /\ (pc = "raised" => outcome \in {"camera_failed", "track_failed",
                                      "writer_failed", "drawer_failed"})

\* Witness of C4: run has raised because the drawer failed, flag cleared.
C4_Witness ==
    /\ pc = "raised"
    /\ outcome = "drawer_failed"
    /\ ~is_running

\* C5: when a track call raises, it is the last thing that happens in the
\* frame loop (no later unit, write, flush, draw, end of frame or pull), the
\* failing call is not repeated, run raises, and is_running is false once the
\* exception is with the caller.
C5_TrackFailureIsFatal ==
    /\ \A k \in 1..Len(log) :
          log[k].kind = "track_raise" =>
              /\ k = Len(log)
              /\ outcome = "track_failed"
              /\ pc \in {"except", "finally", "raised"}
    /\ (outcome = "track_failed" =>
          /\ Len(log) > 0
          /\ log[Len(log)].kind = "track_raise"
          /\ log[Len(log)].frame = i
          /\ pc \in {"except", "finally", "raised"}
          /\ (pc = "raised" => ~is_running))

\* Witness of C5: the first unit of a frame raised, the second was never
\* tracked, and the exception reached the caller.
C5_Witness ==
    /\ pc = "raised"
    /\ outcome = "track_failed"
    /\ Len(log) > 0
    /\ log[Len(log)].kind = "track_raise"
    /\ log[Len(log)].unit = 1
    /\ NumUnits > 1

-----------------------------------------------------------------------------
(* Properties of Monitor.__init__ (checked under SpecBuild) *)

Built == b_pc = "done" /\ mon.err = "ok"
Resolved == inp.rois.given /\ inp.stims.given /\ inp.stims.n = inp.rois.n /\ inp.yoke.given
Entries == inp.yoke.entries
IdsValid == \A k \in DOMAIN Entries :
                Entries[k].y \in 1..inp.rois.n /\ Entries[k].f \in 1..inp.rois.n

\* C6 (as claimed): for a yoke mapping with all ids in 1..n, after
\* construction the stimulator of every yoked unit y is bound to the tracker
\* that the unit standing at index f of the final list owns.
C6_YokedObservesFinalFocal ==
    (Built /\ Resolved /\ IdsValid) =>
        \A k \in DOMAIN Entries :
            mon.bound[Entries[k].y] = mon.units[Entries[k].f].tracker

\* C7 (as claimed): a yoke mapping naming an id outside 1..n makes the
\* construction fail (stated for the calls in which the mapping is read: a
\* stimulator list of matching length is given).
C7_UnknownIdFails ==
    (b_pc = "done" /\ Resolved /\ ~IdsValid) => mon.err # "ok"

\* C8: a stimulator list whose length differs from the number of ROIs
\* makes the constructor raise ValueError with no TrackingUnit built, with or
\* without a yoke mapping.
C8_LengthMismatchFails ==
    (b_pc = "done" /\ inp.rois.given /\ inp.stims.given /\ inp.stims.n # inp.rois.n) =>
        /\ mon.err = "ValueError"
        /\ mon.ntrackers = 0
        /\ mon.units = <<>>

\* Witness of C8: more stimulators than ROIs together with a yoke
\* mapping, and the constructor has raised.
C8_Witness ==
    /\ b_pc = "done"
    /\ inp.rois.given /\ inp.stims.given /\ inp.yoke.given
    /\ inp.stims.n > inp.rois.n
    /\ mon.err = "ValueError"

\* C9: a construction that succeeds leaves exactly n units, none null,
\* the unit at index p tracking ROI p and carrying stimulator p (no
\* stimulator when no list was given).
C9_OneUnitPerRoi ==
    Built =>
        /\ Len(mon.units) = inp.rois.n
        /\ \A p \in 1..inp.rois.n :
              /\ mon.units[p] # Null
              /\ mon.units[p].tracker \in 1..mon.ntrackers
              /\ mon.units[p].roi = p
              /\ mon.units[p].stim = IF inp.stims.given THEN p ELSE NoStim

\* Witness of C9: three ROIs, one yoked to another, the third unmapped.
C9_Witness ==
    /\ Built /\ Resolved /\ IdsValid
    /\ inp.rois.n = 3
    /\ Entries = <<[y |-> 2, f |-> 1]>>
    /\ mon.bound[2] = mon.units[1].tracker
    /\ mon.bound[3] = mon.units[3].tracker

-----------------------------------------------------------------------------
(* Properties of the asynchronous interactors (checked under SpecAsync) *)

OwnedBy(k) == {p \in DOMAIN procs : procs[p].owner = k}
AliveOf(k) == {p \in OwnedBy(k) : procs[p].status = "alive"}

\* C1: in every reachable state, each instance has at most one of the
\* background processes it started alive.
C1_AtMostOneAlive ==
    \A k \in Instances : Cardinality(AliveOf(k)) <= 1

\* Witness of C1: an instance has started two processes, the first has
\* crashed and the second is alive.
C1_Witness ==
    \E k \in Instances :
        /\ Cardinality(OwnedBy(k)) >= 2
        /\ Cardinality(AliveOf(k)) = 1
        /\ \E p \in OwnedBy(k) : procs[p].status = "crashed"

\* C2: a call that decides to act starts one process exactly when the
\* process its instance holds is not alive, and none when it is alive; the
\* call never changes an existing process (it does not wait), and a process
\* is only ever started by such a call of its owner (nothing is queued).
C2_DispatchIffIdle ==
    [][ /\ (a_tick' # a_tick /\ a_ret'.raised = "no" /\ a_ret'.interact) =>
              LET k == a_ret'.inst
                  busy == a_sub[k] # ClassDefault /\ procs[a_sub[k]].status = "alive" IN
              /\ Len(procs') = Len(procs) + (IF busy THEN 0 ELSE 1)
              /\ \A p \in DOMAIN procs : procs'[p] = procs[p]
              /\ (busy => a_sub' = a_sub)
              /\ (~busy => /\ procs'[Len(procs')] = [owner |-> k, status |-> "alive"]
                           /\ a_sub'[k] = Len(procs'))
        /\ (Len(procs') # Len(procs)) =>
              /\ a_tick' # a_tick
              /\ a_ret'.raised = "no"
              /\ a_ret'.interact
              /\ Len(procs') = Len(procs) + 1
              /\ procs'[Len(procs')].owner = a_ret'.inst
      ]_vars

\* Witness of C2: the first process of an instance has completed and the
\* instance's latest call, which decided to act, has started a second one.
C2_Witness ==
    \E k \in Instances :
        /\ Cardinality(OwnedBy(k)) = 2
        /\ \E p \in OwnedBy(k) : procs[p].status = "done" /\ p < a_sub[k]
        /\ procs[a_sub[k]].status = "alive"
        /\ a_ret = Returned(k, TRUE)

-----------------------------------------------------------------------------
(* Properties of SleepDepInteractor (checked under SpecSync) *)

Samples == Len(s_positions)
LastGapSq ==
    (s_positions[Samples][1] - s_positions[Samples - 1][1]) ^ 2
        + (s_positions[Samples][2] - s_positions[Samples - 1][2]) ^ 2
Still == Samples >= 2 /\ LastGapSq < DistanceThreshold ^ 2
SinceTimer == s_times[Samples] - s_t0

\* C10: the detector is edge-triggered. On every call with a tracker:
\*  - it triggers only if the last two samples are closer than the distance
\*    threshold and more than the inactivity duration has passed since the
\*    timer was started, and then it calls _interact once and clears the timer;
\*  - in that situation it does trigger;
\*  - a still sample with no timer running starts the timer and does not
\*    trigger, one within the duration leaves the timer and does not trigger;
\*  - a displacement at or above the threshold clears the timer;
\*  - the call after a triggering call never triggers.
C10_EdgeTriggered ==
    [][ (s_tick' # s_tick /\ s_ret'.raised = "no") =>
          /\ s_ret'.interact =>
                /\ Still /\ s_t0 # NoTimer /\ SinceTimer > InactivityTimeThreshold
                /\ s_t0' = NoTimer
                /\ s_fired' = s_fired + 1
          /\ (Still /\ s_t0 # NoTimer /\ SinceTimer > InactivityTimeThreshold)
                => s_ret'.interact
          /\ ~s_ret'.interact => s_fired' = s_fired
          /\ (Still /\ s_t0 = NoTimer) => s_t0' = s_times[Samples]
          /\ (Still /\ s_t0 # NoTimer /\ SinceTimer <= InactivityTimeThreshold)
                => s_t0' = s_t0
          /\ (Samples >= 2 /\ ~Still) => s_t0' = NoTimer
          /\ s_ret.interact => ~s_ret'.interact
      ]_vars

\* Witness of C10: the detector has triggered exactly once; a later call
\* on a still sample, more than twice the duration into the recording, has
\* restarted the timer without triggering again.
C10_Witness ==
    /\ s_fired = 1
    /\ Samples = MaxSamples
    /\ Still
    /\ s_t0 = s_times[Samples]
    /\ s_times[Samples] > 2 * InactivityTimeThreshold
    /\ ~s_ret.interact

-----------------------------------------------------------------------------
(* Further properties of Monitor.run / Monitor.stop (checked under SpecRun) *)

\* C11: when the camera is exhausted run returns normally with
\* is_running false; a run that was given no frame makes no track, write,
\* flush or draw call, and on a new Monitor it leaves last_frame_idx,
\* last_time_stamp, last_positions (and _last_t) as the constructor set them.
C11_ExhaustionReturnsNormally ==
    /\ (outcome = "exhausted" =>
           /\ pc \in {"finally", "returned"}
           /\ (pc = "returned" => ~is_running))
    /\ (pc # "created" /\ i = -1 =>
           /\ calls = 0
           /\ log = <<>>
           /\ (runs = 1 =>
                  /\ last_frame_idx = 0
                  /\ last_time_stamp = 0
                  /\ last_t = Unset
                  /\ \A u \in Units : last_positions[u] = Absent))

\* Witness of C11: the first run of a Monitor found its camera empty and
\* has returned.
C11_Witness ==
    /\ runs = 1
    /\ i = -1
    /\ cam_pos = 0
    /\ outcome = "exhausted"
    /\ pc = "returned"
    /\ ~is_running

\* The log holds the calls of the frame being processed; the frame is
\* complete when the loop body reached its last statement.
FrameCompleted == Len(log) > 0 /\ log[Len(log)].kind = "end"
\* Positions in the log of the calls of one kind made for one unit
\* (unit 0 for the per-frame calls).
Where(kind, u) == {n \in DOMAIN log : log[n].kind = kind /\ log[n].unit = u}

\* C12: in a completed frame with a result writer, write is called exactly
\* once for each unit that returned records and never for a unit that
\* returned none, flush is called exactly once, after all the writes, and
\* with a drawer draw is called exactly once, after the flush.
C12_WriteFlushDrawOncePerFrame ==
    FrameCompleted =>
        /\ writer =>
              /\ \A u \in Units :
                    Cardinality(Where("write", u)) =
                        IF Where("track_rows", u) # {} THEN 1 ELSE 0
              /\ Cardinality(Where("flush", 0)) = 1
              /\ \A f \in Where("flush", 0) : \A u \in Units :
                    \A w \in Where("write", u) : w < f
        /\ ~writer =>
              /\ Where("flush", 0) = {}
              /\ \A u \in Units : Where("write", u) = {}
        /\ drawer =>
              /\ Cardinality(Where("draw", 0)) = 1
              /\ \A d \in Where("draw", 0) : \A f \in Where("flush", 0) : f < d
        /\ ~drawer => Where("draw", 0) = {}

\* Witness of C12: a completed frame with both collaborators in which one
\* unit returned records and another returned none.
C12_Witness ==
    /\ FrameCompleted
    /\ writer
    /\ drawer
    /\ \E u \in Units : Where("track_rows", u) # {} /\ Where("write", u) # {}
    /\ \E u \in Units : Where("track_empty", u) # {}

\* The track calls of the frame in the log, in the order they were made.
TrackCalls == SelectSeq(log, LAMBDA e : e.kind \in {"track_empty", "track_rows"})

\* C16: after a completed frame last_positions has an entry for every ROI,
\* stored in ROI index order: the empty list for a unit whose track call
\* returned no record in that frame, that frame's absolute positions for
\* every other unit; no entry of an earlier frame survives.
C16_PositionsOfCompletedFrame ==
    FrameCompleted =>
        /\ Len(TrackCalls) = NumUnits
        /\ \A u \in Units :
              /\ TrackCalls[u].unit = u
              /\ TrackCalls[u].frame = last_frame_idx
              /\ last_positions[u] =
                     IF TrackCalls[u].kind = "track_empty"
                     THEN EmptyList
                     ELSE AbsPos(u, last_time_stamp)
        /\ last_time_stamp = t
        /\ last_frame_idx = i

\* Witness of C16: a second frame was completed in which a unit that had
\* positions in the frame before returned no record, while another unit
\* returned records.
C16_Witness ==
    /\ FrameCompleted
    /\ last_frame_idx = 1
    /\ \E u \in Units : TrackCalls[u].kind = "track_empty" /\ last_positions[u] = EmptyList
    /\ \E u \in Units : last_positions[u] = AbsPos(u, last_time_stamp)

\* The statement of C17 as the specification words it: no write of a frame
\* is issued before the track call of every unit has returned for that frame.
C17_WritesAfterAllTracks ==
    \A u \in Units : \A w \in Where("write", u) :
        \A v \in Units : \E n \in 1..(w - 1) :
            log[n].unit = v /\ log[n].kind \in {"track_empty", "track_rows"}

\* C17 (as the code behaves): a unit's records are handed to the result
\* writer right after that unit's own track call returned them, before the
\* next unit is tracked; only flush waits for the track calls of all units.
\* A track failure of a later unit therefore leaves the writes of the
\* earlier units issued, and no flush.
C17_WriteFollowsOwnTrack ==
    /\ \A n \in DOMAIN log :
          log[n].kind \in {"write", "write_raise"} =>
              /\ n > 1
              /\ log[n - 1].kind = "track_rows"
              /\ log[n - 1].unit = log[n].unit
    /\ \A f \in Where("flush", 0) \cup Where("flush_raise", 0) :
          \A v \in Units : \E n \in 1..(f - 1) :
              log[n].unit = v /\ log[n].kind \in {"track_empty", "track_rows"}
    /\ \A n \in DOMAIN log :
          log[n].kind = "track_raise" =>
              /\ Where("flush", 0) = {}
              /\ \A u \in Units : Where("write", u) # {} => u < log[n].unit

\* Witness of C17: the track call of the second unit raised after the
\* records of the first unit had been written.
C17_Witness ==
    /\ outcome = "track_failed"
    /\ Where("track_raise", 2) # {}
    /\ Where("write", 1) # {}

\* C20: the stop request is sticky. A step that sets force_stop changes no
\* other field of the Monitor, no step sets it back to false, and a run
\* started after stop() was called processes no frame: it makes no call and
\* leaves the frame index, time stamp, positions and _last_t alone.
C20_StopIsSticky ==
    /\ [](stoppedAt = 0 =>
             /\ force_stop
             /\ calls = 0
             /\ log = <<>>
             /\ pc \in {"pull", "check", "except", "finally", "returned", "raised"})
    /\ [][/\ force_stop => force_stop'
          /\ force_stop' # force_stop =>
                 UNCHANGED <<pc, is_running, last_frame_idx, last_time_stamp,
                             last_positions, last_t, i, t, j, cam_pos>>
          /\ stoppedAt' = 0 =>
                 UNCHANGED <<last_frame_idx, last_time_stamp, last_positions,
                             last_t>>]_vars

\* Witness of C20: a first run processed frames and was stopped; a second
\* run of the same Monitor pulled one frame and returned without
\* processing it.
C20_Witness ==
    /\ runs = 2
    /\ stoppedAt = 0
    /\ force_stop
    /\ i = 0
    /\ last_t # Unset
    /\ outcome = "stopped"
    /\ pc = "returned"

-----------------------------------------------------------------------------
(* Further properties of BaseInteractor (checked under SpecAsync) *)

\* The process instance k's _subprocess names has exited abnormally.
CrashedOf(k) == a_sub[k] # ClassDefault /\ procs[a_sub[k]].status = "crashed"
\* This step is a __call__ of instance k in which _run decided to act.
Triggers(k) == a_tick' # a_tick /\ a_ret' = Returned(k, TRUE)

\* The statement of C13 as the specification words it: once the background
\* execution of an instance has crashed, no step starts a new one for it.
C13_CrashStarvesForever ==
    [][\A k \in Instances : CrashedOf(k) => a_sub'[k] = a_sub[k]]_vars

\* C13 (as the code behaves): a crashed background execution does not
\* starve its instance. The next qualifying trigger of the instance starts a
\* new execution, exactly as after a normal end; a trigger is dropped only
\* while the instance's latest execution has not ended.
C13_CrashDoesNotStarve ==
    [][\A k \in Instances :
          Triggers(k) =>
              IF a_sub[k] # ClassDefault /\ procs[a_sub[k]].status = "alive"
              THEN UNCHANGED <<a_sub, procs>>
              ELSE /\ Len(procs') = Len(procs) + 1
                   /\ a_sub'[k] = Len(procs')
                   /\ procs'[a_sub'[k]] = [owner |-> k, status |-> "alive"]
                   /\ \A p \in DOMAIN procs : procs'[p] = procs[p]]_vars

\* Witness of C13: an instance whose earlier execution crashed was
\* triggered again and now has a new execution alive.
C13_Witness ==
    \E k \in Instances : \E p, q \in DOMAIN procs :
        /\ p < q
        /\ procs[p] = [owner |-> k, status |-> "crashed"]
        /\ procs[q] = [owner |-> k, status |-> "alive"]
        /\ a_sub[k] = q
        /\ a_ret = Returned(k, TRUE)

\* C18: the busy guard is per instance. A request of instance k is dropped
\* only while a process started by k itself is alive, whatever the
\* processes of the other instances do; a call of k never changes the
\* _subprocess of another instance, and the process an instance holds is
\* always one it started itself (or the never started class default).
C18_BusyGuardPerInstance ==
    /\ [](\A k \in Instances :
             a_sub[k] # ClassDefault => procs[a_sub[k]].owner = k)
    /\ [][\A k \in Instances :
             /\ Triggers(k) =>
                   /\ (procs' = procs => AliveOf(k) # {})
                   /\ (AliveOf(k) = {} => Len(procs') = Len(procs) + 1)
             /\ (a_tick' # a_tick /\ a_ret'.inst = k) =>
                   \A m \in Instances \ {k} : a_sub'[m] = a_sub[m]]_vars

\* Witness of C18: while a process of one instance was in flight, a request
\* of another instance was served; both processes are alive.
C18_Witness ==
    \E k, m \in Instances : \E p \in AliveOf(k), q \in AliveOf(m) :
        /\ k # m
        /\ p < q
        /\ a_sub[k] = p
        /\ a_sub[m] = q
        /\ a_ret = Returned(m, TRUE)

-----------------------------------------------------------------------------
(* Further property of Monitor.__init__ (checked under SpecBuild) *)

\* The trackers the frame loop feeds: those owned by the units of the final list.
FinalTrackers == {mon.units[p].tracker : p \in DOMAIN mon.units}

\* C19 (as claimed): after a construction with a yoke mapping succeeded, the
\* tracker every yoked unit's stimulator observes is owned by a unit of the
\* final list, never by a unit that was built and then replaced, for every
\* iteration order of the mapping, chains and self-mappings included.
C19_ObservedTrackerIsLive ==
    (Built /\ Resolved /\ IdsValid) =>
        \A k \in DOMAIN Entries : mon.bound[Entries[k].y] \in FinalTrackers

-----------------------------------------------------------------------------
(* Property of both interactor variants (checked under SpecCalls) *)

\* C14: a call of an interactor that has no tracker bound raises ValueError
\* and leaves the interactor as it was: _run is not evaluated (the
\* inactivity timer keeps its value, nothing is triggered) and no process
\* is created or started. A call after bind_tracker does not raise ValueError.
C14_UnboundCallFails ==
    [][/\ s_tick' # s_tick =>
             IF ~s_bound
             THEN /\ s_ret' = SyncRaised("ValueError")
                  /\ UNCHANGED <<s_bound, s_t0, s_fired, s_positions, s_times>>
             ELSE s_ret'.raised # "ValueError"
       /\ a_tick' # a_tick =>
             IF ~a_bound[a_ret'.inst]
             THEN /\ a_ret' = Raised(a_ret'.inst, "ValueError")
                  /\ UNCHANGED <<a_bound, a_sub, procs>>
             ELSE a_ret'.raised # "ValueError"]_vars

\* Witness of C14: the detector was called without a tracker while the last
\* two positions were close (evaluating _run would have started the timer):
\* the call raised and the timer is still unset.
C14_Witness ==
    /\ ~s_bound
    /\ s_ret = SyncRaised("ValueError")
    /\ Still
    /\ s_t0 = NoTimer
    /\ s_fired = 0

-----------------------------------------------------------------------------
(* Termination after stop() (checked under SpecRunLive) *)

Terminated == pc \in {"returned", "raised"} /\ ~is_running

\* C15: stop() only sets the flag: the step changes neither the position of
\* the run thread nor is_running (it does not wait). While the thread waits
\* for the camera the run is still running, flag or no flag. If every pull
\* and every call returns, a run that is executing when the flag is set
\* eventually terminates with is_running false.
C15_StopEventuallyTerminates ==
    /\ [][force_stop' # force_stop => UNCHANGED <<pc, is_running>>]_vars
    /\ [](pc = "pull" => is_running)
    /\ ((force_stop /\ is_running) ~> Terminated)

\* Witness of C15: stop() was called while the first run was processing
\* frames, and the run has returned.
C15_Witness ==
    /\ runs = 1
    /\ force_stop
    /\ stoppedAt >= 1
    /\ last_t # Unset
    /\ outcome = "stopped"
    /\ Terminated

-----------------------------------------------------------------------------
(* Property of SystemPlaySoundOnStop (checked under SpecSound) *)

\* C21: _t0 is the tracker time of the latest call that decided to act: it
\* is set to the time of the last sample by every such call, whether the
\* request is then dispatched or dropped by the busy guard, and by nothing
\* else. A call decides to act only when no decision was made before or the
\* latest one lies at least rest_time back, so two consecutive decisions are
\* at least rest_time apart.
C21_RestTimeBetweenDecisions ==
    [][/\ Triggers(TheSound) =>
             /\ s_t0' = s_times[Len(s_times)]
             /\ s_fired' = s_fired + 1
             /\ (s_t0 = NoTimer \/ s_times[Len(s_times)] - s_t0 >= RestTime)
       /\ s_t0' # s_t0 => Triggers(TheSound)
       /\ s_fired' # s_fired => Triggers(TheSound)]_vars

\* Witness of C21: the second decision to act came while the process of
\* the first was still alive; the request was dropped and the trigger time
\* moved to the time of that call.
C21_Witness ==
    /\ s_fired = 2
    /\ Len(procs) = 1
    /\ procs[1] = [owner |-> TheSound, status |-> "alive"]
    /\ a_ret = Returned(TheSound, TRUE)
    /\ s_t0 = s_times[Len(s_times)]
    /\ s_t0 >= s_times[2] + RestTime

=============================================================================
